---- MODULE Spec2Model ----
(***************************************************************************)
(* The toast store of src/src/hooks/use-toast.ts: the reducer, the removal *)
(* queue (toastTimeouts and the setTimeout callbacks it arms), dispatch,   *)
(* and the public operations toast(), handle.update, handle.dismiss and    *)
(* useToast().dismiss, together with direct calls of the exported reducer. *)
(*                                                                         *)
(* A toast, a payload and a patch are functions from field names to        *)
(* values: the object spread {...a, ...b} is the override Spread(a, b).    *)
(* An optional toastId is a set of strings: {} is undefined, {s} is s.     *)
(***************************************************************************)
EXTENDS Integers, Sequences, FiniteSets, TLC

\* ----------------------------------------------------------------- constants

\* use-toast.ts:9
TOAST_LIMIT == 1

\* Stand-in for Number.MAX_SAFE_INTEGER (use-toast.ts:32), scaled down so that
\* the wrap-around of the id counter is reached.
MAX_SAFE_INTEGER == 2

\* ------------------------------------------------------------------- inputs

Titles == {"A", "B"}
Descriptions == {"d"}

\* An optional field of a payload or patch: absent, or one of the values.
Opt(f, vals) == {<<>>} \cup {f :> v : v \in vals}

\* ------------------------------------------------------------------ helpers

Undefined == {}
Some(s) == {s}

\* {...a, ...b}: the fields of b override those of a.
Spread(a, b) == [f \in (DOMAIN a) \cup (DOMAIN b) |-> IF f \in DOMAIN b THEN b[f] ELSE a[f]]

\* Array.prototype.slice(0, n)
Slice(s, n) == SubSeq(s, 1, IF Len(s) < n THEN Len(s) ELSE n)

Digit == <<"0", "1", "2", "3", "4", "5", "6", "7", "8", "9">>

\* Number.prototype.toString for a non-negative integer
RECURSIVE toString(_)
toString(n) ==
    IF n < 10 THEN Digit[n + 1] ELSE toString(n \div 10) \o Digit[(n % 10) + 1]

Ids(toasts) == {toasts[i]["id"] : i \in 1..Len(toasts)}

\* -------------------------------------------------------------------- state

VARIABLES
    count,          \* the id counter of genId
    memoryState,    \* the store's State: [toasts |-> sequence of toasts]
    toastTimeouts,  \* the keys of the Map toastTimeouts
    timers,         \* the pending setTimeout callbacks, in arming order: each is the toastId it captured
    handles,        \* the ids of the handles toast() has returned
    rstate,         \* the State a direct caller of the exported reducer holds
    listeners,      \* the array listeners: the setState of each subscribed consumer, named by the consumer
    subs,           \* the consumers whose useToast effect is in place (set up, not yet cleaned up)
    calls,          \* the listener calls of the last dispatch, in order: [listener, state]
    owner,          \* history: for each pending timer, whether it was armed for a tracked toast ("live"), for one that has left since ("stale"), or for none ("orphan")
    last,           \* history: the last operation, its id and argument, and whether that id was tracked (hit) and had a pending timer (armed) when it was called
    run,            \* history: the ids of the toast() calls since the last other operation, newest first
    view,           \* for each consumer of useToast, the State its useState holds: <<state>>, or <<>> before its first render
    ui              \* the admin components that call toast(): per component its loading flag and the handler invocation in flight

vars == <<count, memoryState, toastTimeouts, timers, handles, rstate, listeners, subs, calls,
          owner, last, run, view, ui>>

\* ------------------------------------------------------------ the id counter

\* Mutant of genId: the counter is not advanced.
genId_NoIncrement(c) == c % MAX_SAFE_INTEGER

\* genId: the counter after the call; the id returned is its toString
genId(c) == (c + 1) % MAX_SAFE_INTEGER

\* ------------------------------------------------------- the removal queue

\* Mutant of addToRemoveQueue: no toastTimeouts.has guard.
addToRemoveQueue_NoGuard(tm, toastId) ==
    [map |-> tm.map \cup {toastId}, queue |-> Append(tm.queue, toastId)]

\* addToRemoveQueue, on tm = [map |-> keys of toastTimeouts, queue |-> pending callbacks]
addToRemoveQueue(tm, toastId) ==
    IF toastId \in tm.map
    THEN tm
    ELSE [map |-> tm.map \cup {toastId}, queue |-> Append(tm.queue, toastId)]

\* state.toasts.forEach((toast) => addToRemoveQueue(toast.id))
RECURSIVE addAllToRemoveQueue(_, _)
addAllToRemoveQueue(tm, toasts) ==
    IF toasts = <<>> THEN tm
    ELSE addAllToRemoveQueue(addToRemoveQueue(tm, Head(toasts)["id"]), Tail(toasts))

\* ------------------------------------------------------------- the reducer

\* Mutant of AddToast: the list is not cut to TOAST_LIMIT.
AddToast_NoSlice(state, toast) ==
    [toasts |-> <<toast>> \o state.toasts]

\* Mutant of AddToast: the new toast is appended, so the cut keeps the oldest.
AddToast_KeepOldest(state, toast) ==
    [toasts |-> Slice(state.toasts \o <<toast>>, TOAST_LIMIT)]

AddToast(state, toast) ==
    [toasts |-> Slice(<<toast>> \o state.toasts, TOAST_LIMIT)]

\* Mutant of UpdateToast: a toast that is not tracked is added by the update.
UpdateToast_Upsert(state, toast) ==
    IF \E i \in 1..Len(state.toasts) : state.toasts[i]["id"] = toast["id"]
    THEN [toasts |-> [i \in 1..Len(state.toasts) |->
            IF state.toasts[i]["id"] = toast["id"]
            THEN Spread(state.toasts[i], toast)
            ELSE state.toasts[i]]]
    ELSE [toasts |-> <<Spread([open |-> TRUE, onOpenChange |-> toast["id"]], toast)>>
                        \o state.toasts]

\* Mutant of UpdateToast: the matching toast is replaced, not merged.
UpdateToast_Replace(state, toast) ==
    [toasts |-> [i \in 1..Len(state.toasts) |->
        IF state.toasts[i]["id"] = toast["id"] THEN toast ELSE state.toasts[i]]]

UpdateToast(state, toast) ==
    [toasts |-> [i \in 1..Len(state.toasts) |->
        IF state.toasts[i]["id"] = toast["id"]
        THEN Spread(state.toasts[i], toast)
        ELSE state.toasts[i]]]

\* Mutant of DismissToast: the dismissed toast is dropped at once.
DismissToast_Drop(state, toastId) ==
    [toasts |-> SelectSeq(state.toasts,
        LAMBDA t : ~(Some(t["id"]) = toastId \/ toastId = Undefined))]

DismissToast(state, toastId) ==
    [toasts |-> [i \in 1..Len(state.toasts) |->
        IF Some(state.toasts[i]["id"]) = toastId \/ toastId = Undefined
        THEN Spread(state.toasts[i], "open" :> FALSE)
        ELSE state.toasts[i]]]

\* Mutant of DismissQueue: without an id nothing is queued.
DismissQueue_OnlyWithId(tm, state, toastId) ==
    IF toastId # Undefined /\ toastId # Some("")
    THEN addToRemoveQueue(tm, CHOOSE s \in toastId : TRUE)
    ELSE tm

\* The side effect of the DISMISS_TOAST case on the removal queue.  A toastId
\* that is the empty string is falsy and takes the else branch.
DismissQueue(tm, state, toastId) ==
    IF toastId # Undefined /\ toastId # Some("")
    THEN addToRemoveQueue(tm, CHOOSE s \in toastId : TRUE)
    ELSE addAllToRemoveQueue(tm, state.toasts)

\* Mutant of RemoveToast: only a toast that is already closed is removed.
RemoveToast_OnlyClosed(state, toastId) ==
    IF toastId = Undefined
    THEN [toasts |-> <<>>]
    ELSE [toasts |-> SelectSeq(state.toasts,
                LAMBDA t : Some(t["id"]) # toastId \/ t["open"] = TRUE)]

\* Mutant of RemoveToast: an id that matches no toast clears the list.
RemoveToast_ClearOnMiss(state, toastId) ==
    IF toastId = Undefined \/ ~(toastId \subseteq Ids(state.toasts))
    THEN [toasts |-> <<>>]
    ELSE [toasts |-> SelectSeq(state.toasts, LAMBDA t : Some(t["id"]) # toastId)]

RemoveToast(state, toastId) ==
    IF toastId = Undefined
    THEN [toasts |-> <<>>]
    ELSE [toasts |-> SelectSeq(state.toasts, LAMBDA t : Some(t["id"]) # toastId)]

\* reducer(state, action): the State it returns
reducer(state, action) ==
    CASE action.type = "ADD_TOAST" -> AddToast(state, action.toast)
      [] action.type = "UPDATE_TOAST" -> UpdateToast(state, action.toast)
      [] action.type = "DISMISS_TOAST" -> DismissToast(state, action.toastId)
      [] action.type = "REMOVE_TOAST" -> RemoveToast(state, action.toastId)

\* Mutant of reducerTimers: ADD_TOAST queues the toasts it evicts for removal.
reducerTimers_QueueEvicted(tm, state, action) ==
    IF action.type = "DISMISS_TOAST"
    THEN DismissQueue(tm, state, action.toastId)
    ELSE IF action.type = "ADD_TOAST"
         THEN addAllToRemoveQueue(tm, SubSeq(state.toasts, TOAST_LIMIT, Len(state.toasts)))
         ELSE tm

\* reducer(state, action): what it leaves in toastTimeouts and the timer queue
reducerTimers(tm, state, action) ==
    IF action.type = "DISMISS_TOAST"
    THEN DismissQueue(tm, state, action.toastId)
    ELSE tm

Action(type, toast, toastId) == [type |-> type, toast |-> toast, toastId |-> toastId]

Tm == [map |-> toastTimeouts, queue |-> timers]

\* listeners.forEach((listener) => listener(state)): the calls made, in order
Notify(ls, state) == [i \in 1..Len(ls) |-> [listener |-> ls[i], state |-> state]]

\* Mutant of dispatch: listeners are called only when the state has changed.
dispatch_SkipUnchanged(tm, action) ==
    /\ memoryState' = reducer(memoryState, action)
    /\ toastTimeouts' = reducerTimers(tm, memoryState, action).map
    /\ timers' = reducerTimers(tm, memoryState, action).queue
    /\ calls' = IF memoryState' = memoryState THEN <<>> ELSE Notify(listeners, memoryState')

\* dispatch(action) on the store, tm being the removal queue when it is called
dispatch(tm, action) ==
    /\ memoryState' = reducer(memoryState, action)
    /\ toastTimeouts' = reducerTimers(tm, memoryState, action).map
    /\ timers' = reducerTimers(tm, memoryState, action).queue
    /\ calls' = Notify(listeners, memoryState')

\* The value of owner in the specifications that do not record it.
NoOwner == [off |-> "off"]

\* History: what each pending timer was armed for, after a step.
OwnerNext ==
    owner' = IF owner = NoOwner THEN owner ELSE
        [x \in toastTimeouts' |->
            IF x \notin toastTimeouts
            THEN (IF x \in Ids(memoryState.toasts) THEN "live" ELSE "orphan")
            ELSE IF owner[x] = "live" /\ x \notin Ids(memoryState'.toasts)
                 THEN "stale" ELSE owner[x]]

\* The value of view in the specifications that do not follow the consumers' renders.
NoView == [off |-> "off"]

\* listener(state) is setState(state): every consumer whose listener is
\* registered holds the new state after a dispatch.
ViewNext ==
    view' = IF view = NoView THEN view ELSE
        [c \in DOMAIN view |->
            IF \E i \in 1..Len(listeners) : listeners[i] = c THEN memoryState' ELSE view[c]]

\* --------------------------------------------------------------- operations

\* Mutant of NewToast: the payload is spread last and overrides id and open.
NewToast_PropsLast(props, id) ==
    Spread([id |-> id, open |-> TRUE, onOpenChange |-> id], props)

\* The toast that toast(props) adds: { ...props, id, open: true, onOpenChange }.
\* The onOpenChange closure is modelled by the id its dismiss() captured.
NewToast(props, id) ==
    Spread(props, [id |-> id, open |-> TRUE, onOpenChange |-> id])

Payloads ==
    {t @@ d @@ o : t \in Opt("title", Titles), d \in Opt("description", Descriptions),
                   o \in Opt("open", {FALSE})}

Patches ==
    {t @@ o : t \in Opt("title", Titles), o \in Opt("open", BOOLEAN)}

\* Every id the counter can produce.
AllIds == {toString(n) : n \in 0..(MAX_SAFE_INTEGER - 1)}

\* The strings useToast().dismiss is called with: every id the counter can
\* produce (tracked, no longer tracked or not yet handed out) and the empty string.
DismissIds == AllIds \cup {""}

Record(op, toastId, arg) ==
    [op |-> op, id |-> toastId, arg |-> arg,
     hit |-> toastId # {} /\ toastId \subseteq Ids(memoryState.toasts),
     armed |-> toastId # {} /\ toastId \subseteq toastTimeouts]

\* toast(props), whoever calls it
Show(props) ==
    LET id == toString(genId(count)) IN
    /\ count' = genId(count)
    /\ dispatch(Tm, Action("ADD_TOAST", NewToast(props, id), Undefined))
    /\ handles' = handles \cup {id}
    /\ last' = Record("toast", Some(id), props)
    /\ run' = Slice(<<id>> \o run, TOAST_LIMIT + 1)
    /\ OwnerNext
    /\ ViewNext
    /\ UNCHANGED <<rstate, listeners, subs>>

\* toast(props) called from outside the admin components
Toast(props) ==
    /\ Show(props)
    /\ UNCHANGED ui

\* handle.update(props) of the handle with this id
HandleUpdate(id, props) ==
    /\ id \in handles
    /\ dispatch(Tm, Action("UPDATE_TOAST", Spread(props, [id |-> id]), Undefined))
    /\ last' = Record("update", Some(id), props)
    /\ run' = <<>>
    /\ UNCHANGED ui
    /\ OwnerNext
    /\ ViewNext
    /\ UNCHANGED <<count, handles, rstate, listeners, subs>>

\* handle.dismiss() of the handle with this id
HandleDismiss(id) ==
    /\ id \in handles
    /\ dispatch(Tm, Action("DISMISS_TOAST", <<>>, Some(id)))
    /\ last' = Record("dismiss", Some(id), <<>>)
    /\ run' = <<>>
    /\ UNCHANGED ui
    /\ OwnerNext
    /\ ViewNext
    /\ UNCHANGED <<count, handles, rstate, listeners, subs>>

\* useToast().dismiss(toastId)
Dismiss(toastId) ==
    /\ dispatch(Tm, Action("DISMISS_TOAST", <<>>, toastId))
    /\ last' = Record("dismiss", toastId, <<>>)
    /\ run' = <<>>
    /\ UNCHANGED ui
    /\ OwnerNext
    /\ ViewNext
    /\ UNCHANGED <<count, handles, rstate, listeners, subs>>

\* The callback that addToRemoveQueue armed first runs: it deletes its key
\* and dispatches REMOVE_TOAST.
TimerFire ==
    /\ timers # <<>>
    /\ LET toastId == Head(timers) IN
        /\ dispatch([map |-> toastTimeouts \ {toastId}, queue |-> Tail(timers)],
                    Action("REMOVE_TOAST", <<>>, Some(toastId)))
        /\ last' = Record("timer", Some(toastId), <<>>)
    /\ run' = <<>>
    /\ UNCHANGED ui
    /\ OwnerNext
    /\ ViewNext
    /\ UNCHANGED <<count, handles, rstate, listeners, subs>>

\* Mutant of OnOpenChange: the test on open is inverted.
OnOpenChange_Inverted(i, open) ==
    /\ i \in 1..Len(memoryState.toasts)
    /\ IF open
       THEN dispatch(Tm, Action("DISMISS_TOAST", <<>>, Some(memoryState.toasts[i]["onOpenChange"])))
       ELSE calls' = <<>> /\ UNCHANGED <<memoryState, toastTimeouts, timers>>
    /\ last' = Record("onOpenChange", Some(memoryState.toasts[i]["id"]), [open |-> open])
    /\ run' = <<>>
    /\ UNCHANGED ui
    /\ OwnerNext
    /\ ViewNext
    /\ UNCHANGED <<count, handles, rstate, listeners, subs>>

\* toast.onOpenChange(open), called by the display on the i-th tracked toast:
\* if (!open) dismiss(), dismiss being the closure over the id of its toast() call.
OnOpenChange(i, open) ==
    /\ i \in 1..Len(memoryState.toasts)
    /\ IF ~open
       THEN dispatch(Tm, Action("DISMISS_TOAST", <<>>, Some(memoryState.toasts[i]["onOpenChange"])))
       ELSE calls' = <<>> /\ UNCHANGED <<memoryState, toastTimeouts, timers>>
    /\ last' = Record("onOpenChange", Some(memoryState.toasts[i]["id"]), [open |-> open])
    /\ run' = <<>>
    /\ UNCHANGED ui
    /\ OwnerNext
    /\ ViewNext
    /\ UNCHANGED <<count, handles, rstate, listeners, subs>>

\* The consumers that call useToast.
Comps == {"c1", "c2"}

\* Mutant of RemoveListener: splice(index) without a delete count drops the rest too.
RemoveListener_SpliceToEnd(ls, c) ==
    IF \E i \in 1..Len(ls) : ls[i] = c
    THEN SubSeq(ls, 1, (CHOOSE i \in 1..Len(ls) : ls[i] = c /\ \A j \in 1..(i - 1) : ls[j] # c) - 1)
    ELSE ls

\* index = listeners.indexOf(setState); if (index > -1) listeners.splice(index, 1)
RemoveListener(ls, c) ==
    IF \E i \in 1..Len(ls) : ls[i] = c
    THEN LET index == CHOOSE i \in 1..Len(ls) : ls[i] = c /\ \A j \in 1..(i - 1) : ls[j] # c
         IN  SubSeq(ls, 1, index - 1) \o SubSeq(ls, index + 1, Len(ls))
    ELSE ls

\* The effect of useToast in consumer c runs: listeners.push(setState)
Subscribe(c) ==
    /\ c \notin subs
    /\ listeners' = Append(listeners, c)
    /\ subs' = subs \cup {c}
    /\ last' = [op |-> "subscribe", id |-> Undefined, arg |-> [listener |-> c],
                hit |-> FALSE, armed |-> FALSE]
    /\ run' = <<>>
    /\ UNCHANGED ui
    /\ calls' = <<>>
    /\ UNCHANGED <<count, memoryState, toastTimeouts, timers, handles, rstate, owner, view>>

\* The cleanup of that effect runs
Unsubscribe(c) ==
    /\ c \in subs
    /\ listeners' = RemoveListener(listeners, c)
    /\ subs' = subs \ {c}
    /\ last' = [op |-> "unsubscribe", id |-> Undefined, arg |-> [listener |-> c],
                hit |-> FALSE, armed |-> FALSE]
    /\ run' = <<>>
    /\ UNCHANGED ui
    /\ calls' = <<>>
    /\ UNCHANGED <<count, memoryState, toastTimeouts, timers, handles, rstate, owner, view>>

\* The admin components that own a loading flag and call toast().
Components == {"UserManager", "CategoryManager"}

\* useState(true) for loading, no handler invoked yet.
UiInit ==
    [c \in Components |->
        [loading |-> TRUE, handler |-> "none", pc |-> "idle", editing |-> FALSE,
         role |-> "user", error |-> FALSE, shown |-> <<>>, refreshed |-> FALSE, notified |-> FALSE]]

\* The handlers of the admin components that wrap a remote call.
Handlers == {"handleRoleChange", "handleSubmit", "handleDelete"}

OwnerOf(h) == IF h = "handleRoleChange" THEN "UserManager" ELSE "CategoryManager"

Roles == {"user", "agent", "admin"}

\* error.message of the error the remote call returned; "" stands for none.
Messages == {"", "permission denied"}

\* The toast the try block shows after the remote call returned no error.
SuccessToast(h, editing, role) ==
    CASE h = "handleRoleChange" ->
            [title |-> "Role Updated",
             description |-> "User role has been changed to " \o role \o "."]
      [] h = "handleSubmit" /\ editing ->
            [title |-> "Category Updated",
             description |-> "The category has been updated successfully."]
      [] h = "handleSubmit" /\ ~editing ->
            [title |-> "Category Created",
             description |-> "The new category has been created successfully."]
      [] h = "handleDelete" ->
            [title |-> "Category Deleted",
             description |-> "The category has been deleted successfully."]

\* The toast the catch block shows: error.message || fallback, destructive.
ErrorToast(h, message) ==
    [title |-> "Error",
     description |-> IF message # "" THEN message
                     ELSE CASE h = "handleRoleChange" -> "Failed to update user role"
                            [] h = "handleSubmit" -> "Failed to save category"
                            [] h = "handleDelete" -> "Failed to delete category",
     variant |-> "destructive"]

\* Mutant of OnError: setLoading(false) is not in a finally block.
OnError_NoFinally(u, t) ==
    [u EXCEPT !.pc = "done", !.error = TRUE, !.shown = Append(@, t)]

\* The invocation after `if (error) throw error`: catch shows t, finally
\* clears loading, and the handler is finished.
OnError(u, t) ==
    [u EXCEPT !.pc = "done", !.error = TRUE, !.shown = Append(@, t), !.loading = FALSE]

\* The invocation after the remote call returned no error: the try block
\* shows t, handleSubmit resets its dialog state, and the refresh is awaited.
OnSuccess(u, t) ==
    [u EXCEPT !.pc = "refresh", !.shown = Append(@, t), !.editing = FALSE]

\* The invocation after the awaited fetchUsers / fetchCategories settled
\* (it catches its own errors and clears loading): the parent callback
\* runs, finally clears loading, and the handler is finished.
OnRefreshed(u) ==
    [u EXCEPT !.pc = "done", !.refreshed = TRUE, !.notified = TRUE, !.loading = FALSE]

\* A handler is invoked: setLoading(true), then the remote call is awaited.
Invoke(h, editing, role) ==
    LET c == OwnerOf(h) IN
    /\ ui[c].pc \in {"idle", "done"}
    /\ editing => h = "handleSubmit"
    /\ ui' = [ui EXCEPT ![c] =
                [loading |-> TRUE, handler |-> h, pc |-> "remote", editing |-> editing,
                 role |-> role, error |-> FALSE, shown |-> <<>>,
                 refreshed |-> FALSE, notified |-> FALSE]]
    /\ UNCHANGED <<count, memoryState, toastTimeouts, timers, handles, rstate, listeners,
                   subs, calls, owner, last, run, view>>

\* handleDelete when confirm(...) is answered with no: it returns at once.
DeclineDelete ==
    LET c == OwnerOf("handleDelete") IN
    /\ ui[c].pc \in {"idle", "done"}
    /\ ui' = [ui EXCEPT ![c] =
                [@ EXCEPT !.handler = "handleDelete", !.pc = "idle", !.error = FALSE,
                          !.shown = <<>>, !.refreshed = FALSE, !.notified = FALSE]]
    /\ UNCHANGED <<count, memoryState, toastTimeouts, timers, handles, rstate, listeners,
                   subs, calls, owner, last, run, view>>

\* The awaited remote update / insert / delete of component c returns.
RemoteReturns(c, error, message) ==
    LET u == ui[c] IN
    /\ u.pc = "remote"
    /\ IF error
       THEN /\ Show(ErrorToast(u.handler, message))
            /\ ui' = [ui EXCEPT ![c] = OnError(u, ErrorToast(u.handler, message))]
       ELSE /\ Show(SuccessToast(u.handler, u.editing, u.role))
            /\ ui' = [ui EXCEPT ![c] = OnSuccess(u, SuccessToast(u.handler, u.editing, u.role))]

\* The awaited list refresh of component c settles.
FetchReturns(c) ==
    /\ ui[c].pc = "refresh"
    /\ ui' = [ui EXCEPT ![c] = OnRefreshed(ui[c])]
    /\ UNCHANGED <<count, memoryState, toastTimeouts, timers, handles, rstate, listeners,
                   subs, calls, owner, last, run, view>>

\* The admin components calling toast() on the store, with the user closing
\* toasts and the removal timers firing in between.
HandlerNext ==
    \/ \E h \in Handlers, editing \in BOOLEAN, role \in Roles : Invoke(h, editing, role)
    \/ DeclineDelete
    \/ \E c \in Components, error \in BOOLEAN, message \in Messages :
            RemoteReturns(c, error, message)
    \/ \E c \in Components : FetchReturns(c)
    \/ Dismiss(Undefined)
    \/ TimerFire

Init ==
    /\ count = 0
    /\ memoryState = [toasts |-> <<>>]
    /\ toastTimeouts = {}
    /\ timers = <<>>
    /\ handles = {}
    /\ rstate = [toasts |-> <<>>]
    /\ listeners = <<>>
    /\ subs = {}
    /\ calls = <<>>
    /\ owner = NoOwner
    /\ last = [op |-> "init", id |-> {}, arg |-> <<>>, hit |-> FALSE, armed |-> FALSE]
    /\ run = <<>>
    /\ view = NoView
    /\ ui = UiInit

Next ==
    \/ \E props \in Payloads : Toast(props)
    \/ \E id \in handles, props \in Patches : HandleUpdate(id, props)
    \/ \E id \in handles : HandleDismiss(id)
    \/ \E s \in DismissIds : Dismiss(Some(s))
    \/ Dismiss(Undefined)
    \/ \E i \in 1..TOAST_LIMIT, open \in BOOLEAN : OnOpenChange(i, open)
    \/ TimerFire

Spec == Init /\ [][Next]_vars

\* The store with the consumers of useToast subscribing and unsubscribing.
ListenerNext ==
    \/ Next
    \/ \E c \in Comps : Subscribe(c)
    \/ \E c \in Comps : Unsubscribe(c)

ListenerSpec == Init /\ [][ListenerNext]_vars

\* The consumers whose renders are followed.
Renderers == {"c1"}

\* The first render of consumer c: useState(memoryState) reads the store.
Mount(c) ==
    /\ view[c] = <<>>
    /\ view' = [view EXCEPT ![c] = <<memoryState>>]
    /\ last' = [op |-> "render", id |-> Undefined, arg |-> [listener |-> c],
                hit |-> FALSE, armed |-> FALSE]
    /\ run' = <<>>
    /\ calls' = <<>>
    /\ UNCHANGED <<count, memoryState, toastTimeouts, timers, handles, rstate, listeners,
                   subs, owner, ui>>

\* The effect of a rendered consumer runs, after the commit of its render.
Effect(c) ==
    /\ view[c] # <<>>
    /\ Subscribe(c)

\* The store with its consumers rendering, subscribing in their effect and
\* cleaning the effect up when their state has changed.
ConsumerInit ==
    /\ count = 0
    /\ memoryState = [toasts |-> <<>>]
    /\ toastTimeouts = {}
    /\ timers = <<>>
    /\ handles = {}
    /\ rstate = [toasts |-> <<>>]
    /\ listeners = <<>>
    /\ subs = {}
    /\ calls = <<>>
    /\ owner = NoOwner
    /\ last = [op |-> "init", id |-> {}, arg |-> <<>>, hit |-> FALSE, armed |-> FALSE]
    /\ run = <<>>
    /\ view = [c \in Renderers |-> <<>>]
    /\ ui = UiInit

ConsumerNext ==
    \/ \E props \in Payloads : Toast(props)
    \/ Dismiss(Undefined)
    \/ TimerFire
    \/ \E c \in Renderers : Mount(c)
    \/ \E c \in Renderers : Effect(c)
    \/ \E c \in Renderers : Unsubscribe(c)

ConsumerSpec == ConsumerInit /\ [][ConsumerNext]_vars

HandlerSpec == Init /\ [][HandlerNext]_vars

\* The store with the history of what each pending timer was armed for.
OwnerInit ==
    /\ count = 0
    /\ memoryState = [toasts |-> <<>>]
    /\ toastTimeouts = {}
    /\ timers = <<>>
    /\ handles = {}
    /\ rstate = [toasts |-> <<>>]
    /\ listeners = <<>>
    /\ subs = {}
    /\ calls = <<>>
    /\ owner = <<>>
    /\ last = [op |-> "init", id |-> {}, arg |-> <<>>, hit |-> FALSE, armed |-> FALSE]
    /\ run = <<>>
    /\ view = NoView
    /\ ui = UiInit

OwnerSpec == OwnerInit /\ [][Next]_vars

\* Every armed timer fires: TOAST_REMOVE_DELAY is finite.
FairSpec == Spec /\ WF_vars(TimerFire)

\* ------------------------------------------- the exported reducer, called directly

\* The actions a direct caller passes to reducer.
ReducerActions ==
    {Action("ADD_TOAST", NewToast(props, id), Undefined) : props \in Payloads, id \in AllIds}
    \cup {Action("UPDATE_TOAST", Spread(props, [id |-> id]), Undefined) :
                props \in Patches, id \in AllIds}
    \cup {Action(type, <<>>, toastId) :
                type \in {"DISMISS_TOAST", "REMOVE_TOAST"},
                toastId \in {Undefined} \cup {Some(x) : x \in DismissIds}}

\* state = reducer(state, action) by a caller that holds its own State: the
\* store is not touched, the module's toastTimeouts and timers are.
ReducerCall(action) ==
    /\ rstate' = reducer(rstate, action)
    /\ toastTimeouts' = reducerTimers(Tm, rstate, action).map
    /\ timers' = reducerTimers(Tm, rstate, action).queue
    /\ last' = [op |-> action.type,
                id |-> IF action.type \in {"ADD_TOAST", "UPDATE_TOAST"}
                       THEN Some(action.toast["id"]) ELSE action.toastId,
                arg |-> action.toast,
                hit |-> action.toastId # {} /\ action.toastId \subseteq Ids(rstate.toasts),
                armed |-> action.toastId # {} /\ action.toastId \subseteq toastTimeouts]
    /\ run' = <<>>
    /\ UNCHANGED ui
    /\ OwnerNext
    /\ UNCHANGED <<count, memoryState, handles, listeners, subs, calls, view>>

ReducerNext ==
    \/ \E action \in ReducerActions : ReducerCall(action)
    \/ TimerFire

\* The States a direct caller starts from: lists of up to two toasts with
\* distinct ids, each open or closed.
ReducerToasts ==
    {Spread(NewToast([title |-> "A"], id), [open |-> o]) : id \in AllIds, o \in BOOLEAN}

ReducerStates ==
    {[toasts |-> <<>>]}
    \cup {[toasts |-> <<t>>] : t \in ReducerToasts}
    \cup {[toasts |-> <<p[1], p[2]>>] :
                p \in {q \in ReducerToasts \X ReducerToasts : q[1]["id"] # q[2]["id"]}}

ReducerInit ==
    /\ count = 0
    /\ memoryState = [toasts |-> <<>>]
    /\ toastTimeouts = {}
    /\ timers = <<>>
    /\ handles = {}
    /\ rstate \in ReducerStates
    /\ listeners = <<>>
    /\ subs = {}
    /\ calls = <<>>
    /\ owner = NoOwner
    /\ last = [op |-> "init", id |-> {}, arg |-> <<>>, hit |-> FALSE, armed |-> FALSE]
    /\ run = <<>>
    /\ view = NoView
    /\ ui = UiInit

ReducerSpec == ReducerInit /\ [][ReducerNext]_vars

\* ------------------------------------------------------------------ claims

Toasts == memoryState.toasts
IdSeq(toasts) == [i \in 1..Len(toasts) |-> toasts[i]["id"]]
LastId == CHOOSE s \in last.id : TRUE
Count(q, x) == Cardinality({i \in 1..Len(q) : q[i] = x})

\* C1: in every reachable state the tracked list has at most TOAST_LIMIT toasts.
C1_AtMostLimit == Len(Toasts) <= TOAST_LIMIT

\* C1 witness: the list is full and the last toast() call overflowed it.
C1_Witness == Len(Toasts) = TOAST_LIMIT /\ Len(run) > TOAST_LIMIT

\* C2: after more than TOAST_LIMIT consecutive toast() calls the tracked list is
\* exactly the TOAST_LIMIT most recently shown toasts, newest first, each open,
\* and its first element is the toast built from the last payload.
C2_MostRecentFirst ==
    Len(run) > TOAST_LIMIT =>
        /\ IdSeq(Toasts) = Slice(run, TOAST_LIMIT)
        /\ \A i \in 1..Len(Toasts) : Toasts[i]["open"] = TRUE
        /\ Toasts[1] = NewToast(last.arg, LastId)

\* C2 witness: show(A) then show(B) with nothing in between.
C2_Witness ==
    /\ Len(run) > TOAST_LIMIT
    /\ "title" \in DOMAIN last.arg
    /\ last.arg["title"] = "B"

\* C3: right after toast(payload) returned a handle, the first tracked toast
\* has the handle's id and is open, whatever the payload carried.
C3_ShownFirstAndOpen ==
    last.op = "toast" =>
        /\ Len(Toasts) >= 1
        /\ Toasts[1]["id"] = LastId
        /\ Toasts[1]["open"] = TRUE

\* C3 witness: the payload itself carried open=false and a toast was tracked before.
C3_Witness ==
    /\ last.op = "toast"
    /\ "open" \in DOMAIN last.arg
    /\ last.arg["open"] = FALSE
    /\ Len(run) > 1

\* C4: tracked ids are pairwise distinct, and the id toast() assigns is not
\* the id of a toast tracked when it is called.
C4_UniqueIds ==
    /\ Cardinality(Ids(Toasts)) = Len(Toasts)
    /\ last.op = "toast" => ~last.hit

\* C4 witness: toast() was called while another toast was tracked, after the
\* counter has wrapped around to 0.
C4_Witness == last.op = "toast" /\ Len(run) > 1 /\ LastId = "0"

\* C5: handle.update(patch) changes only the fields the patch names (and id,
\* which it sets to the handle's own id) on the toast with the handle's id;
\* that toast's other fields, every other toast, the length, the order and the
\* tracked ids stay, and applying the same patch again changes nothing.
C5_UpdateFrame ==
    [][last'.op = "update" =>
        LET id == CHOOSE s \in last'.id : TRUE
            patch == last'.arg
            old == memoryState.toasts
            new == memoryState'.toasts
        IN  /\ Len(new) = Len(old)
            /\ IdSeq(new) = IdSeq(old)
            /\ \A i \in 1..Len(old) :
                 IF old[i]["id"] = id
                 THEN /\ DOMAIN new[i] = (DOMAIN old[i]) \cup (DOMAIN patch)
                      /\ \A f \in DOMAIN patch : new[i][f] = patch[f]
                      /\ \A f \in (DOMAIN old[i]) \ (DOMAIN patch) : new[i][f] = old[i][f]
                 ELSE new[i] = old[i]
            /\ reducer(memoryState',
                       Action("UPDATE_TOAST", Spread(patch, [id |-> id]), Undefined)) = memoryState'
    ]_vars

\* C5 witness: an update of a tracked toast by a patch that names title but
\* not open or description, on a toast that has a description.
C5_Witness ==
    /\ last.op = "update"
    /\ last.hit
    /\ DOMAIN last.arg = {"title"}
    /\ "description" \in DOMAIN Toasts[1]

\* C6: right after dismiss(h) of a tracked h the list still holds h, with
\* open=false; a tracked id leaves the list only in a step that is a timer
\* firing or a toast() call (eviction).
C6_DismissKeeps ==
    /\ [](last.op = "dismiss" /\ last.hit =>
            \E i \in 1..Len(Toasts) : Toasts[i]["id"] = LastId /\ Toasts[i]["open"] = FALSE)
    /\ [][\A h \in Ids(memoryState.toasts) :
            h \notin Ids(memoryState'.toasts) => last'.op \in {"timer", "toast"}]_vars

\* C6 witness: dismiss(h) has just been called on a tracked toast.
C6_Witness == last.op = "dismiss" /\ last.hit /\ ~last.armed

\* C7: no toast stays tracked with open=false forever: every toast whose open
\* flag has become false eventually leaves the tracked list (every armed timer
\* fires).
C7_ClosedEventuallyRemoved ==
    \A h \in AllIds :
        ~<>[](\E i \in 1..Len(Toasts) : Toasts[i]["id"] = h /\ Toasts[i]["open"] = FALSE)

\* C8: right after dismiss() without an id every tracked toast has open=false
\* and a pending removal timer, and each of them eventually leaves the list.
C8_DismissAll ==
    /\ [](last.op = "dismiss" /\ last.id = Undefined =>
            \A i \in 1..Len(Toasts) :
                /\ Toasts[i]["open"] = FALSE
                /\ Toasts[i]["id"] \in toastTimeouts
                /\ Count(timers, Toasts[i]["id"]) = 1)
    /\ \A h \in AllIds :
            (last.op = "dismiss" /\ last.id = Undefined /\ h \in Ids(Toasts))
                ~> (h \notin Ids(Toasts))

\* C8 witness: dismiss() without an id was called while an open toast with no
\* timer was tracked.
C8_Witness ==
    /\ last.op = "dismiss"
    /\ last.id = Undefined
    /\ Len(Toasts) = TOAST_LIMIT
    /\ Len(timers) = 1

\* C9: after dismiss(id), calling dismiss(id) again changes neither the tracked
\* list nor the timers; no id has more than one pending timer, the keys of
\* toastTimeouts are the pending timers, and a dismiss of an id with a pending
\* timer leaves the timer queue as it is.
C9_DismissIdempotent ==
    /\ \A x \in AllIds \cup {""} : Count(timers, x) <= 1
    /\ toastTimeouts = {timers[i] : i \in 1..Len(timers)}
    /\ last.op = "dismiss" /\ last.id # Undefined =>
            /\ reducer(memoryState, Action("DISMISS_TOAST", <<>>, last.id)) = memoryState
            /\ reducerTimers(Tm, memoryState, Action("DISMISS_TOAST", <<>>, last.id)) = Tm
    /\ \A x \in toastTimeouts :
            reducerTimers(Tm, memoryState, Action("DISMISS_TOAST", <<>>, Some(x))) = Tm

\* C9 witness: dismiss(id) was called on a tracked toast whose timer was
\* already pending.
C9_Witness == last.op = "dismiss" /\ last.hit /\ last.armed

\* C10: once the REMOVE_TOAST mutation for the id of a tracked toast has been
\* applied, by a timer firing or by a call of the reducer, no removal timer is
\* pending for that id.
C10_RemoveCancelsTimer ==
    last.op \in {"timer", "REMOVE_TOAST"} /\ last.hit =>
        /\ LastId \notin toastTimeouts
        /\ Count(timers, LastId) = 0

\* C11: the REMOVE_TOAST mutation for an id deletes exactly the toast with that
\* id, open or closed, and keeps every other toast unchanged and in order;
\* without an id it leaves the list empty.
C11_RemoveExactly ==
    [][last'.op = "REMOVE_TOAST" =>
        LET old == rstate.toasts
            new == rstate'.toasts
        IN  IF last'.id = Undefined
            THEN new = <<>>
            ELSE /\ last'.id \cap Ids(new) = {}
                 /\ IF last'.id \subseteq Ids(old)
                    THEN \E k \in 1..Len(old) :
                            /\ Some(old[k]["id"]) = last'.id
                            /\ new = SubSeq(old, 1, k - 1) \o SubSeq(old, k + 1, Len(old))
                    ELSE new = old
    ]_vars

\* C11 witness: a toast has been removed by id from a list of two, and the
\* other toast, a closed one, stays.
C11_Witness ==
    /\ last.op = "REMOVE_TOAST"
    /\ last.hit
    /\ Len(rstate.toasts) = 1
    /\ rstate.toasts[1]["open"] = FALSE
    /\ timers = <<>>

\* C12: handle.update, dismiss and the REMOVE_TOAST of a timer with an id that
\* is not tracked leave the tracked list as it was, and a second REMOVE_TOAST of
\* the same id changes nothing.
C12_MissIsNoOp ==
    /\ [][last'.op \in {"update", "dismiss", "timer"} /\ last'.id # Undefined /\ ~last'.hit =>
            memoryState' = memoryState]_vars
    /\ [](\A x \in DismissIds :
            LET once == reducer(memoryState, Action("REMOVE_TOAST", <<>>, Some(x)))
            IN  reducer(once, Action("REMOVE_TOAST", <<>>, Some(x))) = once)

\* C12 witness: a timer for an id that is not tracked has fired while a toast
\* was tracked.
C12_Witness == last.op = "timer" /\ ~last.hit /\ Len(Toasts) = TOAST_LIMIT

\* The last step was a mutation of the store: a dispatch ran.
Mutated ==
    \/ last.op \in {"toast", "update", "dismiss", "timer"}
    \/ last.op = "onOpenChange" /\ last.arg["open"] = FALSE

\* C13: every mutation of the store (toast, update, dismiss, the close signal,
\* a timer firing), also one that leaves the list as it was, calls every
\* registered listener exactly once, in registration order, with the state
\* after the mutation.
C13_AllListenersNotified ==
    Mutated =>
        /\ Len(calls) = Len(listeners)
        /\ \A i \in 1..Len(calls) :
                calls[i].listener = listeners[i] /\ calls[i].state = memoryState
        /\ \A c \in subs : Cardinality({i \in 1..Len(calls) : calls[i].listener = c}) = 1

C13_Witness ==
    /\ last.op = "update"
    /\ ~last.hit
    /\ Len(Toasts) = TOAST_LIMIT
    /\ Len(listeners) = 2
    /\ Len(calls) = 2

C15_ReducerPure ==
    [][last'.op \in {"ADD_TOAST", "UPDATE_TOAST", "DISMISS_TOAST", "REMOVE_TOAST"} =>
            /\ toastTimeouts' = toastTimeouts
            /\ timers' = timers
            /\ listeners' = listeners]_vars

\* C16 as stated: once the toast with id i has left the tracked list, no
\* later state contains a toast with id i.
C16_NeverAgain ==
    [][\A i \in AllIds :
            i \in handles /\ i \notin Ids(Toasts) => i \notin Ids(Toasts')]_vars

\* C16, amended: an id that has left the tracked list comes back only as the
\* id of a new toast() call made after the counter has handed out every id;
\* update, dismiss, the close signal and timer firings never bring it back.
C16_BackOnlyByWrappedToast ==
    [][\A i \in AllIds :
            i \in handles /\ i \notin Ids(Toasts) /\ i \in Ids(Toasts') =>
                /\ last'.op = "toast"
                /\ last'.id = Some(i)
                /\ handles = AllIds]_vars

C16_Witness ==
    /\ last.op = "update"
    /\ ~last.hit
    /\ LastId \in handles
    /\ LastId \notin Ids(Toasts)

\* C17: when the timer that fires was armed for a toast that has left the
\* tracked list since, the firing leaves the tracked list unchanged.
C17_StaleTimerHarmless ==
    [][/\ last'.op = "timer"
       /\ Head(timers) \in DOMAIN owner
       /\ owner[Head(timers)] = "stale"
       => memoryState' = memoryState]_vars

\* C18: a toast() call arms no removal timer and cancels none, closes no
\* toast, and calls every listener exactly once; the toasts it evicts are
\* just no longer in the list.
C18_EvictionSilent ==
    [][last'.op = "toast" =>
            /\ toastTimeouts' = toastTimeouts
            /\ timers' = timers
            /\ Len(calls') = Len(listeners)
            /\ \A c \in subs : Cardinality({i \in 1..Len(calls') : calls'[i].listener = c}) = 1
            /\ Toasts'[1]["open"] = TRUE
            /\ \A k \in 2..Len(Toasts') : Toasts'[k] = Toasts[k - 1]
            /\ \A k \in TOAST_LIMIT..Len(Toasts) :
                    Toasts[k]["id"] # Toasts'[1]["id"] => Toasts[k]["id"] \notin Ids(Toasts')]_vars

C18_Witness ==
    /\ last.op = "toast"
    /\ Len(run) > 1
    /\ Len(listeners) >= 1
    /\ Len(calls) = Len(listeners)
    /\ timers # <<>>

\* The fields of a toast other than those in the set hidden.
Without(t, hidden) == [f \in DOMAIN t \ hidden |-> t[f]]

\* C19 as stated: the state that toast(payload) delivers to the listeners has
\* as first element a toast whose fields other than id equal the payload's.
C19_RoundTrip ==
    last.op = "toast" =>
        \A i \in 1..Len(calls) :
            Without(calls[i].state.toasts[1], {"id"}) = last.arg

\* C19, amended: the first element of the delivered state has the payload's
\* fields other than id, open and onOpenChange; its id is the new id, its
\* open flag is true and its onOpenChange is the closure that dismisses this
\* id, whatever the payload holds for them.
C19_RoundTripButOpen ==
    last.op = "toast" =>
        \A i \in 1..Len(calls) :
            LET t == calls[i].state.toasts[1] IN
            /\ Without(t, {"id", "open", "onOpenChange"})
                    = Without(last.arg, {"id", "open", "onOpenChange"})
            /\ {"id", "open", "onOpenChange"} \subseteq DOMAIN t
            /\ t["id"] = LastId
            /\ t["open"] = TRUE
            /\ t["onOpenChange"] = LastId

C19_Witness ==
    /\ last.op = "toast"
    /\ calls # <<>>
    /\ "title" \in DOMAIN last.arg
    /\ "open" \in DOMAIN last.arg
    /\ last.arg["open"] = FALSE

C22_TimerOwnership == toastTimeouts \subseteq Ids(Toasts)

\* C23: in every reachable state a tracked toast whose id has a pending
\* removal timer is closed.
C23_QueuedIsClosed ==
    \A k \in 1..Len(Toasts) :
        Toasts[k]["id"] \in toastTimeouts => Toasts[k]["open"] = FALSE

\* C24: between dispatches, the state held by a consumer whose listener is
\* registered equals the store's memoryState.
C24_NoStaleView ==
    \A c \in subs : view[c] = <<memoryState>>

\* C21: an invocation of handleRoleChange, handleSubmit or handleDelete that
\* reached the remote call shows one toast for its outcome, a destructive
\* "Error" toast when the remote call returned an error and a success toast
\* otherwise; the list refresh and the parent callback run only on success;
\* loading is false when the handler has finished.
C21_OutcomeReported ==
  /\ [][\A c \in Components :
            Len(ui'[c].shown) > Len(ui[c].shown) =>
                /\ last'.op = "toast"
                /\ Without(Toasts'[1], {"id", "open", "onOpenChange"}) = ui'[c].shown[1]
                /\ Toasts'[1]["open"] = TRUE]_vars
  /\ [](\A c \in Components :
        LET u == ui[c] IN
        /\ u.pc \in {"refresh", "done"} =>
            /\ Len(u.shown) = 1
            /\ IF u.error
               THEN /\ u.shown[1]["title"] = "Error"
                    /\ "variant" \in DOMAIN u.shown[1]
                    /\ u.shown[1]["variant"] = "destructive"
               ELSE /\ u.shown[1]["title"] \in
                        {"Role Updated", "Category Updated", "Category Created", "Category Deleted"}
                    /\ "variant" \notin DOMAIN u.shown[1]
        /\ u.refreshed \/ u.notified => ~u.error /\ u.pc = "done"
        /\ u.pc = "done" =>
            /\ u.loading = FALSE
            /\ u.error <=> ~u.refreshed
            /\ u.refreshed <=> u.notified)

C21_Witness ==
    /\ ui["UserManager"].pc = "done"
    /\ ui["UserManager"].error
    /\ ui["UserManager"].shown[1]["description"] = "Failed to update user role"
    /\ ui["CategoryManager"].pc = "done"
    /\ ui["CategoryManager"].handler = "handleSubmit"
    /\ ui["CategoryManager"].notified
    /\ Len(Toasts) = 1

====
